---- MODULE Spec2Model ----
(***************************************************************************)
(* Model of the reverse WebSocket signal client (src/src/ailo-client.ts),   *)
(* of the channel bootstrap runMcpChannel (src/src/bootstrap.ts and its    *)
(* other generation src/unnamed/part_000) and of the stdio guard           *)
(* (src/unnamed/part_001).                                                 *)
(*                                                                         *)
(* The client is single threaded: every action below is one callback of    *)
(* the event loop (a call made by the user of the class, a socket event    *)
(* of the "ws" library, a timer) run to completion together with the       *)
(* promise reactions (microtasks) it queues.                               *)
(*                                                                         *)
(* The "ws" library and the gateway are the environment:                   *)
(*   - a socket is CONNECTING, OPEN, CLOSING or CLOSED;                    *)
(*   - a failure of a CONNECTING socket emits "error" and then "close" in  *)
(*     the same tick (ws emitErrorAndClose); close() on a CONNECTING       *)
(*     socket aborts the handshake the same way;                           *)
(*   - an error of an OPEN socket emits "error", the socket is CLOSING     *)
(*     and its "close" event follows as a later event;                     *)
(*   - the gateway answers with any frames, in any order.                  *)
(***************************************************************************)
EXTENDS Integers, Sequences, FiniteSets, TLC

\* ------------------------------------------------------------------ bounds
MaxSockets == 3        \* sockets one client instance creates in a run
MaxReqId == 3          \* cap of the reqId counter
MaxEvents == 2         \* inbound events the platform handler delivers in a run
MaxDataOps == 3        \* getData, setData and deleteData calls in a run
MaxWrites == 2         \* calls of the guarded process.stdout.write in a run
MaxChunk == 2          \* pieces of text in the chunk of one logger write

\* --------------------------------------------------------------- constants
RECONNECT_DELAY == 3000
MAX_LINE_BUFFER == 65536

Sockets == 1..MaxSockets
NoSocket == 0
NoTimer == 0
Absent == "absent"

\* The remote methods request() is called with here: the one of sendMessage
\* and the one of getData.
Methods == {"channel.accept", "channel.data.get"}

Payloads == {"P1"}
ErrMsgs == {"E1"}

\* Constructor arguments, stored in the private fields of the instance.
Config ==
  [url |-> "ws://gateway", token |-> "tok", channel |-> "chan",
   displayName |-> "name", defaultRequiresResponse |-> TRUE,
   channelPrompt |-> "prompt"]

VARIABLES
  ws,              \* this.ws: the current socket handle, NoSocket for null
  reconnectTimer,  \* this.reconnectTimer: a timer id, NoTimer for null
  reqId,           \* this.reqId
  timers,          \* the runtime's pending setTimeout timers
  numSockets,      \* sockets created so far (new WebSocket calls)
  readyState,      \* socket -> ws readyState
  connectP,        \* socket -> the promise of the connect() that made it
  caller,          \* socket -> who called that connect(): "user" | "timer"
  onReconnect,     \* socket -> the onReconnect callback chained to its promise
  regId,           \* socket -> correlation id of its registration request
  onMsg,           \* socket -> the handshake listener onMsg is attached
  handlers,        \* socket -> request() handlers attached as message listeners
  reqLog,          \* n -> the request that took correlation number n
  sent,            \* socket -> frames the client sent on it
  destroyed,       \* sockets whose transport is gone: no frame arrives any more
  closeCalled,     \* close() has been called on the instance
  lastCall,        \* what the latest request() call did: sent a frame, or the rejection
  bootstrap,       \* the source of the runMcpChannel that runs, "none" before the call
  handlerDef,      \* what the BridgeHandler of the config defines and how start() ends
  pc,              \* where the startup of runMcpChannel stands
  calls,           \* the calls runMcpChannel has made on its collaborators, in order
  awaited,         \* the promises the startup awaits: of mcpServer.connect, connect(), start()
  exitCode,        \* the status process.exit was called with, NotExited before
  events,          \* the invocations of the onMessage callback, in order
  settings,        \* the config and the environment runMcpChannel was called with
  store,           \* the key/value store of the gateway: key -> value
  dataOps,         \* the getData/setData/deleteData calls made, in order
  lineBuffer,      \* lineBuffer of the stdio guard
  realStdout,      \* the lines handed to the real process.stdout.write, in order
  realStderr,      \* the lines handed to process.stderr.write, in order
  writes,          \* the calls of the guarded process.stdout.write, in order
  flushed          \* the beforeExit listener of the stdio guard has run

\* The state of the client instance and the state of the bootstrap.
clientVars ==
  <<ws, reconnectTimer, reqId, timers, numSockets, readyState, connectP, caller,
    onReconnect, regId, onMsg, handlers, reqLog, sent, destroyed, closeCalled, lastCall>>

bootVars == <<bootstrap, handlerDef, pc, calls, awaited, exitCode, events, settings>>

\* The gateway's store with the data calls, and the stdio guard.
dataVars == <<store, dataOps>>
stdioVars == <<lineBuffer, realStdout, realStderr, writes, flushed>>

vars == <<clientVars, bootVars, dataVars, stdioVars>>

\* The program state as one record, so that a handler is a function of it.
St ==
  [ws |-> ws, reconnectTimer |-> reconnectTimer, reqId |-> reqId, timers |-> timers,
   numSockets |-> numSockets, readyState |-> readyState, connectP |-> connectP,
   caller |-> caller, onReconnect |-> onReconnect, regId |-> regId, onMsg |-> onMsg,
   handlers |-> handlers, reqLog |-> reqLog, sent |-> sent, destroyed |-> destroyed,
   closeCalled |-> closeCalled, lastCall |-> lastCall]

BecomesClient(st) ==
  /\ ws' = st.ws
  /\ reconnectTimer' = st.reconnectTimer
  /\ reqId' = st.reqId
  /\ timers' = st.timers
  /\ numSockets' = st.numSockets
  /\ readyState' = st.readyState
  /\ connectP' = st.connectP
  /\ caller' = st.caller
  /\ onReconnect' = st.onReconnect
  /\ regId' = st.regId
  /\ onMsg' = st.onMsg
  /\ handlers' = st.handlers
  /\ reqLog' = st.reqLog
  /\ sent' = st.sent
  /\ destroyed' = st.destroyed
  /\ closeCalled' = st.closeCalled
  /\ lastCall' = st.lastCall

Becomes(st) == BecomesClient(st) /\ UNCHANGED <<bootVars, dataVars, stdioVars>>

\* ---------------------------------------------------------------- promises
\* A promise: its state, its value or error, and the frame whose arrival
\* settled it (NoFrame when no frame did).
NoFrame == [type |-> "none", id |-> <<"", 0>>, ok |-> FALSE, payload |-> Absent, error |-> Absent]
Pending == [state |-> "pending", value |-> Absent, frame |-> NoFrame]
NoPromise == [state |-> "none", value |-> Absent, frame |-> NoFrame]

\* A promise that takes the latest resolve/reject instead of the first one.
SettleOverwrite(p, how, value, frame) ==
  [state |-> how, value |-> value, frame |-> frame]

\* A promise is settled by the first resolve/reject only.
Settle(p, how, value, frame) ==
  IF p.state = "pending" THEN [state |-> how, value |-> value, frame |-> frame] ELSE p

\* `${method}-${n}`: the method names hold no "-<digits>" suffix, so the
\* string is the pair (method, n).
CorrelationId(method, n) == <<method, n>>
NoId == <<"", 0>>

\* The value of exitCode while the process runs.
NotExited == -1

\* A string given from outside (a setting, a field of an inbound event) is a
\* sequence of characters; Undefined is the value of one that is not set.
Undefined == <<"undefined">>

\* The settings runMcpChannel reads: the fields of its config and the
\* environment variables behind them.
SettingKeys == {"channelName", "ailoWsUrl", "ailoToken"}
AIDO == [channelName |-> "AIDO_MCP_NAME", ailoWsUrl |-> "AIDO_WS_URL", ailoToken |-> "AIDO_TOKEN"]
AILO == [channelName |-> "AILO_MCP_NAME", ailoWsUrl |-> "AILO_WS_URL", ailoToken |-> "AILO_TOKEN"]
EnvNames == {AIDO[k] : k \in SettingKeys} \cup {AILO[k] : k \in SettingKeys}

\* The settings of a process in which runMcpChannel has not been called.
NoSettings ==
  [config |-> [k \in SettingKeys |-> Undefined], env |-> [n \in EnvNames |-> Undefined]]

\* The handler of a process in which runMcpChannel has not been called.
NoHandler == [setDataProvider |-> FALSE, stop |-> FALSE, start |-> "void"]

\* The keys of the gateway's store the channel uses, and the store that
\* holds none of them.
Keys == {"k1", "k2"}
NotStored == [stored |-> FALSE, value |-> ""]
EmptyStore == [k \in Keys |-> NotStored]

Init ==
  /\ ws = NoSocket
  /\ reconnectTimer = NoTimer
  /\ reqId = 0
  /\ timers = {}
  /\ numSockets = 0
  /\ readyState = [s \in Sockets |-> "NONE"]
  /\ connectP = [s \in Sockets |-> NoPromise]
  /\ caller = [s \in Sockets |-> "none"]
  /\ onReconnect = [s \in Sockets |-> NoSocket]
  /\ regId = [s \in Sockets |-> NoId]
  /\ onMsg = [s \in Sockets |-> FALSE]
  /\ handlers = [s \in Sockets |-> {}]
  /\ reqLog = <<>>
  /\ sent = [s \in Sockets |-> <<>>]
  /\ destroyed = {}
  /\ closeCalled = FALSE
  /\ lastCall = "none"
  /\ bootstrap = "none"
  /\ handlerDef = NoHandler
  /\ pc = "notCalled"
  /\ calls = <<>>
  /\ awaited = [mcp |-> "none", connect |-> "none", start |-> "none"]
  /\ exitCode = NotExited
  /\ events = <<>>
  /\ settings = NoSettings
  /\ store = EmptyStore
  /\ dataOps = <<>>
  /\ lineBuffer = <<>>
  /\ realStdout = <<>>
  /\ realStderr = <<>>
  /\ writes = <<>>
  /\ flushed = FALSE


\* ------------------------------------------------------------------ frames
\* The registration request of the open handler.
RegistrationParams ==
  [role |-> "channel", token |-> Config.token, channel |-> Config.channel,
   displayName |-> Config.displayName,
   defaultRequiresResponse |-> Config.defaultRequiresResponse,
   prompt |-> Config.channelPrompt]

ReqFrame(id, method, params) ==
  [type |-> "req", id |-> id, method |-> method, params |-> params]

\* The params of a typed operation, abstracted to the operation it belongs to.
ParamsOf(method) == [role |-> "request", of |-> method]

\* Ids a gateway frame may carry: the ids issued so far and, for each, an id
\* with the same number and another method.
OtherMethod(method) == IF method = "connect" THEN "channel.accept" ELSE "connect"

KnownIds(st) ==
  UNION {{CorrelationId(st.reqLog[n].method, n),
          CorrelationId(OtherMethod(st.reqLog[n].method), n)} : n \in 1..Len(st.reqLog)}

ResFrame(id, ok, payload, error) ==
  [type |-> "res", id |-> id, ok |-> ok, payload |-> payload, error |-> error]

EventFrame(id) ==
  [type |-> "event", id |-> id, ok |-> TRUE, payload |-> Absent, error |-> Absent]

GatewayFrames(st) ==
  {ResFrame(i, TRUE, p, Absent) : i \in KnownIds(st), p \in Payloads \cup {Absent}}
  \cup {ResFrame(i, FALSE, Absent, e) : i \in KnownIds(st), e \in ErrMsgs \cup {Absent}}
  \cup {EventFrame(i) : i \in KnownIds(st)}

\* ----------------------------------------------------------- the handlers
FreshTimer(ts) == CHOOSE t \in 1..(Cardinality(ts) + 1) : \A x \in ts : x.id # t

\* scheduleReconnect without its guard on this.reconnectTimer.
ScheduleReconnectUnguarded(st, cb) ==
  LET t == FreshTimer(st.timers) IN
  [st EXCEPT !.reconnectTimer = t,
             !.timers = @ \cup {[id |-> t, delay |-> RECONNECT_DELAY, onReconnect |-> cb]}]

\* scheduleReconnect(onReconnect): cb is the socket whose connect() promise
\* the callback resolves.
ScheduleReconnect(st, cb) ==
  IF st.reconnectTimer # NoTimer THEN st
  ELSE LET t == FreshTimer(st.timers) IN
       [st EXCEPT !.reconnectTimer = t,
                  !.timers = @ \cup {[id |-> t, delay |-> RECONNECT_DELAY, onReconnect |-> cb]}]

\* resolve() of the connect() promise of socket s, with the reaction
\* .then(() => onReconnect?.()) of a connect() made by the reconnect timer.
RECURSIVE ResolveConnect(_, _)
ResolveConnect(st, s) ==
  IF st.connectP[s].state # "pending" THEN st
  ELSE LET st1 == [st EXCEPT !.connectP[s] = Settle(@, "resolved", Absent, NoFrame)] IN
       IF st.caller[s] = "timer" /\ st.onReconnect[s] # NoSocket
       THEN ResolveConnect(st1, st.onReconnect[s])
       ELSE st1

\* reject(err) of the connect() promise of socket s.
RejectConnect(st, s, err) ==
  [st EXCEPT !.connectP[s] = Settle(@, "rejected", err, NoFrame)]

\* A reconnect that gives up after a rejected attempt.
OnRejectedGiveUp(st0, st, s) == st

\* The reaction .catch(() => this.scheduleReconnect(onReconnect)): it runs as
\* a microtask when the promise of a timer-made connect() was rejected in
\* this tick (st0 is the state before the rejection).
OnRejected(st0, st, s) ==
  IF st0.connectP[s].state = "pending" /\ st.connectP[s].state = "rejected"
     /\ st0.caller[s] = "timer"
  THEN ScheduleReconnect(st, st0.onReconnect[s])
  ELSE st

\* A close handler that drops the handle and schedules nothing.
CloseHandlerNoReconnect(st, s) == [st EXCEPT !.ws = NoSocket]

\* ws.on("close", ...)
CloseHandler(st, s) ==
  ScheduleReconnect([st EXCEPT !.ws = NoSocket], s)

\* ws.on("error", ...)
ErrorHandler(st, s, err) == RejectConnect(st, s, err)

\* A connect() that restarts the id counter for the new socket.
ConnectResetsCounter(st, who, cb) ==
  LET s == st.numSockets + 1 IN
  [st EXCEPT !.numSockets = s, !.ws = s,
             !.reqId = 0,
             !.readyState[s] = "CONNECTING",
             !.connectP[s] = Pending,
             !.caller[s] = who,
             !.onReconnect[s] = cb]

\* connect(): new WebSocket, this.ws = ws; the listeners are modelled by the
\* socket events below.
Connect(st, who, cb) ==
  LET s == st.numSockets + 1 IN
  [st EXCEPT !.numSockets = s, !.ws = s,
             !.readyState[s] = "CONNECTING",
             !.connectP[s] = Pending,
             !.caller[s] = who,
             !.onReconnect[s] = cb]

\* "error" and "close" emitted in one tick for a socket that never opened
\* (connection failure, or close() during the handshake).
EmitErrorAndClose(st, s, err) ==
  LET st1 == ErrorHandler([st EXCEPT  !.readyState[s] = "CLOSED", !.destroyed = @ \cup {s}], s, err)
      st2 == CloseHandler(st1, s)
  IN  OnRejected(st, st2, s)

\* ------------------------------------------------------------ the actions
\* The user of the class calls connect() once, as runMcpChannel does.
UserConnect ==
  /\ numSockets = 0
  /\ Becomes(Connect(St, "user", NoSocket))

\* The setTimeout callback of scheduleReconnect.
TimerFire ==
  \E t \in timers :
    /\ numSockets < MaxSockets
    /\ Becomes(Connect([St EXCEPT !.timers = @ \ {t}, !.reconnectTimer = NoTimer],
                       "timer", t.onReconnect))

\* An open handler that resolves connect() as soon as the request is sent.
OpenHandlerResolvesOnOpen(st, s) ==
  LET n == st.reqId + 1
      id == CorrelationId("connect", n)
  IN  ResolveConnect(
        [st EXCEPT !.readyState[s] = "OPEN",
                   !.reqId = n,
                   !.regId[s] = id,
                   !.sent[s] = Append(@, ReqFrame(id, "connect", RegistrationParams)),
                   !.onMsg[s] = TRUE,
                   !.reqLog = Append(@, [method |-> "connect", sock |-> s, promise |-> Pending])],
        s)

\* ws.on("open", ...): sends the registration request and attaches onMsg.
OpenHandler(st, s) ==
  LET n == st.reqId + 1
      id == CorrelationId("connect", n)
  IN  [st EXCEPT !.readyState[s] = "OPEN",
                 !.reqId = n,
                 !.regId[s] = id,
                 !.sent[s] = Append(@, ReqFrame(id, "connect", RegistrationParams)),
                 !.onMsg[s] = TRUE,
                 !.reqLog = Append(@, [method |-> "connect", sock |-> s, promise |-> Pending])]

SocketOpen(s) ==
  /\ readyState[s] = "CONNECTING"
  /\ reqId < MaxReqId
  /\ Becomes(OpenHandler(St, s))

\* The socket fails before it opened.
ConnectFail(s) ==
  /\ readyState[s] = "CONNECTING"
  /\ Becomes(EmitErrorAndClose(St, s, "transport error"))

\* An open socket fails: "error" now, "close" later.
SocketError(s) ==
  /\ readyState[s] = "OPEN"
  /\ LET st0 == [St EXCEPT !.readyState[s] = "CLOSING", !.destroyed = @ \cup {s}]
     IN  Becomes(OnRejected(st0, ErrorHandler(st0, s, "transport error"), s))

\* The "close" event of a socket that had opened.
SocketClose(s) ==
  /\ readyState[s] \in {"OPEN", "CLOSING"}
  /\ Becomes(CloseHandler([St EXCEPT  !.readyState[s] = "CLOSED", !.destroyed = @ \cup {s}], s))


\* ws.close() of the library, by the socket's state.
WsClose(st, s) ==
  IF st.readyState[s] = "CONNECTING"
  THEN EmitErrorAndClose(st, s, "closed before the connection was established")
  ELSE IF st.readyState[s] = "OPEN"
  THEN [st EXCEPT !.readyState[s] = "CLOSING"]
  ELSE st

\* A close() without the test of this.ws: on a null handle the call
\* this.ws.close() throws a TypeError.
CloseImplUnguarded(st) ==
  IF st.ws = NoSocket
  THEN [st EXCEPT !.closeCalled = TRUE, !.lastCall = "TypeError"]
  ELSE LET s == st.ws
       IN  [st EXCEPT !.closeCalled = TRUE, !.ws = NoSocket,
                      !.readyState[s] = IF @ = "OPEN" THEN "CLOSING" ELSE @]

\* close(): clearTimeout, this.ws.close(), this.ws = null. The library emits
\* the events of an aborted handshake on the next tick, after close() has
\* returned and before any other event.
CloseImpl(st) ==
  LET st1 == IF st.reconnectTimer # NoTimer
             THEN [st EXCEPT !.timers = {t \in @ : t.id # st.reconnectTimer},
                             !.reconnectTimer = NoTimer]
             ELSE st
      st2 == [st1 EXCEPT !.closeCalled = TRUE]
  IN  IF st2.ws # NoSocket
      THEN LET s == st2.ws
           IN  WsClose([st2 EXCEPT !.ws = NoSocket], s)
      ELSE st2

Close ==
  /\ closeCalled \in BOOLEAN
  /\ Becomes(CloseImpl(St))

\* A guard that tests the handle only, not the socket's readyState.
IsConnectedHandleOnly(st) == st.ws # NoSocket

\* The guard of request(): a socket is held and it is OPEN.
IsConnected(st) ==
  st.ws # NoSocket /\ st.readyState[st.ws] = "OPEN"

\* request(method, params)
RequestImpl(st, method) ==
  IF ~IsConnected(st)
  THEN [st EXCEPT !.lastCall = "Ailo WebSocket not connected"]
  ELSE LET n == st.reqId + 1
           id == CorrelationId(method, n)
       IN  [st EXCEPT !.reqId = n,
                      !.handlers[st.ws] = @ \cup {n},
                      !.sent[st.ws] = Append(@, ReqFrame(id, method, ParamsOf(method))),
                      !.reqLog = Append(@, [method |-> method, sock |-> st.ws, promise |-> Pending]),
                      !.lastCall = "sent"]

Request(method) ==
  /\ IsConnected(St) => reqId < MaxReqId
  /\ Becomes(RequestImpl(St, method))

\* A listener that forgets to compare the id.
FrameMatchesAnyResponse(frame, id) == frame.type = "res"

\* The test both message listeners make on a parsed frame.
FrameMatches(frame, id) == frame.type = "res" /\ frame.id = id

\* An outcome without the defaults for a missing payload or error message.
RequestOutcomeNoDefault(p, frame, method) ==
  IF frame.ok
  THEN Settle(p, "resolved", frame.payload, frame)
  ELSE Settle(p, "rejected", frame.error, frame)

\* The outcome a matching frame gives the promise of a request.
RequestOutcome(p, frame, method) ==
  IF frame.ok
  THEN Settle(p, "resolved", IF frame.payload = Absent THEN "{}" ELSE frame.payload, frame)
  ELSE Settle(p, "rejected", IF frame.error = Absent THEN method \o " failed" ELSE frame.error, frame)

\* The promises of the requests in hit, settled by the frame.
RECURSIVE SettleAll(_, _, _)
SettleAll(log, hit, frame) ==
  IF hit = {} THEN log
  ELSE LET n == CHOOSE x \in hit : TRUE IN
       SettleAll([log EXCEPT ![n].promise = RequestOutcome(@, frame, log[n].method)],
                 hit \ {n}, frame)

\* The request handlers attached to socket s see the frame: a handler that
\* matches does this.ws?.off("message", handler) and settles its promise.
RunHandlers(st, s, frame) ==
  LET hit == {n \in st.handlers[s] : FrameMatches(frame, CorrelationId(st.reqLog[n].method, n))}
      off == IF st.ws # NoSocket
             THEN [st EXCEPT !.handlers[st.ws] = @ \ hit]
             ELSE st
  IN  [off EXCEPT !.reqLog = SettleAll(@, hit, frame)]

\* A rejection that drops the gateway's message.
ConnectErrorGeneric(frame) == "connect failed"

\* The error of a rejected registration.
ConnectError(frame) ==
  IF frame.error = Absent THEN "connect failed" ELSE frame.error

\* The handshake listener onMsg of socket s sees the frame; on a match the
\* open handler goes on to resolve() or, through its catch, reject(err).
RunOnMsg(st, s, frame) ==
  IF st.onMsg[s] /\ FrameMatches(frame, st.regId[s])
  THEN LET n == st.regId[s][2]
           st1 == [st EXCEPT !.onMsg[s] = FALSE]
       IN  IF frame.ok
           THEN ResolveConnect(
                  [st1 EXCEPT !.reqLog[n].promise = Settle(@, "resolved", Absent, frame)], s)
           ELSE LET err == ConnectError(frame)
                    st2 == [st1 EXCEPT !.reqLog[n].promise = Settle(@, "rejected", err, frame)]
                IN  OnRejected(st2, RejectConnect(st2, s, err), s)
  ELSE st

\* A "message" event: the gateway wrote the frame, the socket delivers it in
\* the order written and every listener of the socket is called with it.
\* A socket the client closed still delivers until its "close" event.
Deliver(s) ==
  /\ readyState[s] \in {"OPEN", "CLOSING"}
  /\ s \notin destroyed
  /\ \E frame \in GatewayFrames(St) :
       Becomes(RunOnMsg(RunHandlers(St, s, frame), s, frame))

Next ==
  \/ UserConnect
  \/ TimerFire
  \/ Close
  \/ \E s \in Sockets : SocketOpen(s)
  \/ \E s \in Sockets : ConnectFail(s)
  \/ \E s \in Sockets : SocketError(s)
  \/ \E s \in Sockets : SocketClose(s)
  \/ \E s \in Sockets : Deliver(s)
  \/ \E method \in Methods : Request(method)

Spec == Init /\ [][Next]_vars

\* ------------------------------------------- a gateway that finally accepts
\* The runs of the client that never calls close(), against a gateway that
\* is unreachable or loses the connection only finitely often (never on the
\* last socket of the bound) and never refuses a registration.

\* The gateway is unreachable for socket s.
GatewayDown(s) ==
  /\ s < MaxSockets
  /\ ConnectFail(s)

\* The connection of the open socket s is lost.
ConnectionLost(s) ==
  /\ s < MaxSockets
  /\ readyState[s] = "OPEN"
  /\ SocketClose(s)

\* The response that acknowledges the registration sent on socket s.
AckFrame(st, s) == ResFrame(st.regId[s], TRUE, Absent, Absent)

\* The gateway acknowledges the registration of socket s.
DeliverAck(s) ==
  /\ readyState[s] = "OPEN"
  /\ s \notin destroyed
  /\ onMsg[s]
  /\ Becomes(RunOnMsg(RunHandlers(St, s, AckFrame(St, s)), s, AckFrame(St, s)))

\* Any other frame of the accepting gateway: not a refusal of a registration.
DeliverOther(s) ==
  /\ readyState[s] = "OPEN"
  /\ s \notin destroyed
  /\ \E frame \in GatewayFrames(St) :
       /\ ~(frame.type = "res" /\ ~frame.ok /\ frame.id[1] = "connect")
       /\ Becomes(RunOnMsg(RunHandlers(St, s, frame), s, frame))

\* Correlation numbers the registrations still to come need under the cap.
IdsReserved ==
  (MaxSockets - numSockets) + Cardinality({s \in Sockets : readyState[s] = "CONNECTING"})

\* request(), as long as the cap of reqId leaves the registrations their ids.
RequestLive(method) ==
  /\ IsConnected(St) => reqId + IdsReserved < MaxReqId
  /\ Becomes(RequestImpl(St, method))

NextLive ==
  \/ UserConnect
  \/ TimerFire
  \/ \E s \in Sockets : SocketOpen(s)
  \/ \E s \in Sockets : GatewayDown(s)
  \/ \E s \in Sockets : ConnectionLost(s)
  \/ \E s \in Sockets : DeliverAck(s)
  \/ \E s \in Sockets : DeliverOther(s)
  \/ \E method \in Methods : RequestLive(method)

\* The timer of setTimeout fires, a socket the gateway lets in opens, and
\* the gateway answers the registration it received.
SpecLive ==
  /\ Init /\ [][NextLive]_vars
  /\ WF_vars(TimerFire)
  /\ \A s \in Sockets : WF_vars(SocketOpen(s))
  /\ \A s \in Sockets : WF_vars(DeliverAck(s))


\* ------------------------------------------------- runMcpChannel (bootstrap)
\* The two generations of runMcpChannel in the repository. The client it
\* constructs is seen here through the promises of connect() and of
\* sendMessage(); what settles them is the subject of the client model above.
Bootstraps == {"src/unnamed/part_000", "src/src/bootstrap.ts"}

HandlerDefs ==
  [setDataProvider : BOOLEAN, stop : BOOLEAN, start : {"void", "promise"}]

Running == exitCode = NotExited

\* process.exit(code): nothing of the process runs afterwards.
Exit(code) ==
  /\ pc' = "exited"
  /\ exitCode' = code

\* v ?? d
OrElse(v, d) == IF v = Undefined THEN d ELSE v

\* envOr(name, fallback) of bootstrap.ts.
EnvOr(env, name, fallback) == OrElse(env[name], OrElse(env[fallback], <<>>))

\* const channelName, ailoWsUrl, ailoToken of runMcpChannel.
Setting(file, config, env, key) ==
  IF file = "src/src/bootstrap.ts"
  THEN OrElse(config[key], EnvOr(env, AIDO[key], AILO[key]))
  ELSE OrElse(config[key], OrElse(env[AILO[key]], <<>>))

\* A check that lets the startup go on when any of the three is set.
ConfiguredAny(file, config, env) ==
  \E key \in SettingKeys : Setting(file, config, env, key) # <<>>

\* The negation of !ailoWsUrl || !ailoToken || !channelName.
Configured(file, config, env) ==
  \A key \in SettingKeys : Setting(file, config, env, key) # <<>>

\* runMcpChannel(config), up to the first await of its startup function:
\* the check of url, token and channel name, new AiloClient,
\* handler.setOnMessage, process.on, mcpServer.connect(transport).
RunMcpChannel(file, h, config, env) ==
  /\ pc = "notCalled"
  /\ bootstrap' = file
  /\ handlerDef' = h
  /\ settings' = [config |-> config, env |-> env]
  /\ IF Configured(file, config, env)
     THEN /\ calls' = <<"new AiloClient", "handler.setOnMessage", "mcpServer.connect">>
          /\ awaited' = [awaited EXCEPT !.mcp = "pending"]
          /\ pc' = "awaitMcp"
          /\ UNCHANGED exitCode
     ELSE /\ Exit(1)
          /\ UNCHANGED <<calls, awaited>>
  /\ UNCHANGED <<events, clientVars, dataVars, stdioVars>>

\* await mcpServer.connect(transport) returns: client.connect() is called.
McpConnected ==
  /\ Running /\ pc = "awaitMcp"
  /\ calls' = Append(calls, "client.connect")
  /\ awaited' = [awaited EXCEPT !.mcp = "resolved", !.connect = "pending"]
  /\ pc' = "awaitConnect"
  /\ UNCHANGED <<bootstrap, handlerDef, exitCode, events, clientVars, settings, dataVars, stdioVars>>

\* mcpServer.connect rejects: the startup function has no catch around it,
\* its promise is rejected and nobody handles it; the runtime ends the
\* process with status 1 or only warns, by its unhandled-rejection mode.
McpFailed ==
  /\ Running /\ pc = "awaitMcp"
  /\ awaited' = [awaited EXCEPT !.mcp = "rejected"]
  /\ \/ Exit(1)
     \/ pc' = "startupRejected" /\ UNCHANGED exitCode
  /\ UNCHANGED <<bootstrap, handlerDef, calls, events, clientVars, settings, dataVars, stdioVars>>

\* The calls of the startup function between the two awaits: the part_000
\* generation injects the client as data provider when the handler defines
\* setDataProvider; both generations then call handler.start().
StartupCalls(file, h) ==
  IF file = "src/unnamed/part_000" /\ h.setDataProvider
  THEN <<"handler.setDataProvider", "handler.start">>
  ELSE <<"handler.start">>

\* A startup that goes on after a failed connect().
ConnectFailedGoOn(file, h) ==
  /\ calls' = calls \o StartupCalls(file, h)
  /\ awaited' = [awaited EXCEPT !.connect = "rejected"]
  /\ pc' = "done"
  /\ UNCHANGED exitCode

\* catch of await client.connect(): console.error, process.exit(1).
ConnectFailed(file, h) ==
  /\ awaited' = [awaited EXCEPT !.connect = "rejected"]
  /\ Exit(1)
  /\ UNCHANGED calls

\* await client.connect() returns: the calls up to handler.start(), and the
\* await of its result when it is a promise.
ConnectResolved ==
  /\ Running /\ pc = "awaitConnect"
  /\ calls' = calls \o StartupCalls(bootstrap, handlerDef)
  /\ awaited' = [awaited EXCEPT !.connect = "resolved",
                                !.start = IF handlerDef.start = "promise"
                                          THEN "pending" ELSE "none"]
  /\ pc' = IF handlerDef.start = "promise" THEN "awaitStart" ELSE "done"
  /\ UNCHANGED <<bootstrap, handlerDef, exitCode, events, clientVars, settings, dataVars, stdioVars>>

\* await client.connect() throws.
ConnectRejected ==
  /\ Running /\ pc = "awaitConnect"
  /\ ConnectFailed(bootstrap, handlerDef)
  /\ UNCHANGED <<bootstrap, handlerDef, events, clientVars, settings, dataVars, stdioVars>>

\* The promise handler.start() returned is fulfilled.
StartResolved ==
  /\ Running /\ pc = "awaitStart"
  /\ awaited' = [awaited EXCEPT !.start = "resolved"]
  /\ pc' = "done"
  /\ UNCHANGED <<bootstrap, handlerDef, calls, exitCode, events, clientVars, settings, dataVars, stdioVars>>

\* The promise handler.start() returned is rejected: console.error,
\* process.exit(1).
StartRejected ==
  /\ Running /\ pc = "awaitStart"
  /\ awaited' = [awaited EXCEPT !.start = "rejected"]
  /\ Exit(1)
  /\ UNCHANGED <<bootstrap, handlerDef, calls, events, clientVars, settings, dataVars, stdioVars>>

\* SIGINT or SIGTERM: handler.stop?.(), client.close(), process.exit(0).
Shutdown ==
  /\ Running /\ pc \notin {"notCalled", "exited"}
  /\ calls' = calls \o (IF handlerDef.stop THEN <<"handler.stop">> ELSE <<>>)
                    \o <<"client.close">>
  /\ Exit(0)
  /\ UNCHANGED <<bootstrap, handlerDef, awaited, events, clientVars, settings, dataVars, stdioVars>>

\* ------------------------------------------------- the onMessage callback
\* A string of an inbound event is a sequence of characters.
Whitespace == {" ", "\t", "\n", "\r"}

RECURSIVE TrimStart(_)
TrimStart(s) ==
  IF s # <<>> /\ Head(s) \in Whitespace THEN TrimStart(Tail(s)) ELSE s

RECURSIVE TrimEnd(_)
TrimEnd(s) ==
  IF s # <<>> /\ s[Len(s)] \in Whitespace THEN TrimEnd(SubSeq(s, 1, Len(s) - 1)) ELSE s

\* String.prototype.trim
Trim(s) == TrimEnd(TrimStart(s))

\* The test without trim().
HasContentUntrimmed(file, msg) ==
  \/ OrElse(msg.text, <<>>) # <<>>
  \/ Len(OrElse(msg.attachments, <<>>)) > 0
  \/ (file = "src/unnamed/part_000" /\ Len(msg.contextTags) > 0)

\* hasContent of the callback: part_000 also counts the context tags the
\* event carries; the events of bootstrap.ts carry none.
HasContent(file, msg) ==
  \/ Trim(OrElse(msg.text, <<>>)) # <<>>
  \/ Len(OrElse(msg.attachments, <<>>)) > 0
  \/ (file = "src/unnamed/part_000" /\ Len(msg.contextTags) > 0)

\* A number, NaN included.
Num(n) == [nan |-> FALSE, n |-> n]
NaN == [nan |-> TRUE, n |-> 0]

Digits == <<"0", "1", "2", "3", "4", "5", "6", "7", "8", "9">>
IsDigit(c) == \E i \in DOMAIN Digits : Digits[i] = c
DigitValue(c) == (CHOOSE i \in DOMAIN Digits : Digits[i] = c) - 1

RECURSIVE DigitsValue(_, _)
DigitsValue(s, acc) ==
  IF s # <<>> /\ IsDigit(Head(s))
  THEN DigitsValue(Tail(s), acc * 10 + DigitValue(Head(s)))
  ELSE acc

\* parseInt(s, 10): leading whitespace is skipped, a sign is read, then the
\* longest run of digits; NaN when there is no digit.
ParseInt(s) ==
  LET t == TrimStart(s)
      signed == t # <<>> /\ Head(t) \in {"-", "+"}
      body == IF signed THEN Tail(t) ELSE t
  IN  IF body = <<>> \/ ~IsDigit(Head(body)) THEN NaN
      ELSE IF signed /\ Head(t) = "-"
      THEN Num(0 - DigitsValue(body, 0))
      ELSE Num(DigitsValue(body, 0))

\* String(n).padStart(2, "0")
Pad(n) == IF n < 10 THEN "0" \o ToString(n) ELSE ToString(n)

\* The year, month and day of a day count since 1970-01-01.
CivilFromDays(days) ==
  LET z == days + 719468
      era == z \div 146097
      doe == z - era * 146097
      yoe == (doe - doe \div 1460 + doe \div 36524 - doe \div 146096) \div 365
      doy == doe - (365 * yoe + yoe \div 4 - yoe \div 100)
      mp == (5 * doy + 2) \div 153
      m == IF mp < 10 THEN mp + 3 ELSE mp - 9
  IN  [year |-> yoe + era * 400 + (IF m <= 2 THEN 1 ELSE 0),
       month |-> m,
       day |-> doy - (153 * mp + 2) \div 5 + 1]

\* `${year}-${month}-${day} ${hours}:${minutes}` of new Date(tsMs), for a
\* process whose local time zone is UTC.
FormatSentAt(tsMs) ==
  LET minutes == tsMs \div 60000
      date == CivilFromDays(minutes \div 1440)
  IN  ToString(date.year) \o "-" \o Pad(date.month) \o "-" \o Pad(date.day)
        \o " " \o Pad((minutes % 1440) \div 60) \o ":" \o Pad(minutes % 60)

\* The timestamp of an event as the number the callback tests.
TimestampMs(ts) == IF ts.kind = "number" THEN ts.num ELSE ParseInt(ts.str)

\* s.slice(-8)
Last8(s) == IF Len(s) <= 8 THEN s ELSE SubSeq(s, Len(s) - 7, Len(s))

\* isPrivate of the callback: msg.isPrivate ?? false
IsPrivate(msg) == msg.isPrivate = "true"

\* groupLabel: the chat name, else the last characters of the chat id after
\* the one-character prefix of the source (written "G" here); the empty
\* string stands for both falsy values, false and "".
GroupLabel(msg) ==
  IF IsPrivate(msg) THEN <<>>
  ELSE IF OrElse(msg.chatName, <<>>) # <<>> THEN msg.chatName
  ELSE IF msg.chatId # <<>> THEN <<"G">> \o Last8(msg.chatId)
  ELSE <<>>

\* A context tag; the descriptions of the source are written by their meaning.
Tag(key, desc, value) == [key |-> key, desc |-> desc, value |-> value]

\* contextTags as the callback of bootstrap.ts builds it.
ContextTags(msg) ==
  LET ts == IF msg.timestamp.kind = "absent" THEN NaN ELSE TimestampMs(msg.timestamp)
  IN  <<Tag("chat_type", "type", msg.chatType), Tag("chat_id", "session", msg.chatId)>>
      \o (IF GroupLabel(msg) # <<>>
          THEN <<Tag("chat_name", "group name", GroupLabel(msg))>> ELSE <<>>)
      \o <<Tag("sender_name", "nickname", OrElse(msg.senderName, <<>>)),
           Tag("sender_id", "user id", OrElse(msg.senderId, <<>>))>>
      \o (IF msg.mentionsSelf = "true"
          THEN <<Tag("mentions_self", "mentions self", "true")>> ELSE <<>>)
      \o (IF ~ts.nan /\ ts.n > 0
          THEN <<Tag("sent_at", "sent at", FormatSentAt(ts.n))>> ELSE <<>>)

\* The for loop that fills the flag list up to the length of the tag list.
RECURSIVE FillFlags(_, _, _)
FillFlags(core, length, flag) ==
  IF Len(core) < length THEN FillFlags(Append(core, flag), length, flag) ELSE core

\* A flag list that marks the sender tags of a group session as well.
CoreForSenseContextAllTrue(msg, tags) ==
  FillFlags(<<TRUE, TRUE>>, Len(tags), TRUE)

\* coreForSenseContext as the callback of bootstrap.ts builds it.
CoreForSenseContext(msg, tags) ==
  FillFlags(<<TRUE, TRUE>> \o (IF GroupLabel(msg) # <<>> THEN <<TRUE>> ELSE <<>>),
            Len(tags), IsPrivate(msg))

\* The argument of client.sendMessage: part_000 passes the event on,
\* bootstrap.ts builds the params of channel.accept.
SendMessageArgs(file, msg) ==
  IF file = "src/unnamed/part_000" THEN msg
  ELSE LET tags == ContextTags(msg) IN
       [chatId |-> msg.chatId,
        text |-> OrElse(msg.text, <<>>),
        contextTags |-> tags,
        coreForSenseContext |-> CoreForSenseContext(msg, tags),
        attachments |-> OrElse(msg.attachments, <<>>)]

\* tagValue(tags, kind): the value of the first tag of the kind, "" if none.
RECURSIVE TagValue(_, _)
TagValue(tags, kind) ==
  IF tags = <<>> THEN <<>>
  ELSE IF Head(tags).kind = kind THEN Head(tags).value
  ELSE TagValue(Tail(tags), kind)

\* The fixed chat id of an event without one.
DefaultChatId == <<"m", "a", "i", "n">>

\* params of sendMessage with requiresResponse copied only when it is truthy.
AcceptParamsTruthy(msg) ==
  [chatId |-> IF TagValue(msg.contextTags, "chat_id") # <<>>
              THEN TagValue(msg.contextTags, "chat_id") ELSE DefaultChatId,
   text |-> OrElse(msg.text, <<>>),
   contextTags |-> msg.contextTags,
   attachments |-> OrElse(msg.attachments, <<>>),
   requiresResponse |-> IF msg.requiresResponse = "true" THEN "true" ELSE Absent]

\* params of AiloClient.sendMessage (ailo-client.ts); requiresResponse is
\* Absent when the params have no such key.
AcceptParams(msg) ==
  [chatId |-> IF TagValue(msg.contextTags, "chat_id") # <<>>
              THEN TagValue(msg.contextTags, "chat_id") ELSE DefaultChatId,
   text |-> OrElse(msg.text, <<>>),
   contextTags |-> msg.contextTags,
   attachments |-> OrElse(msg.attachments, <<>>),
   requiresResponse |-> IF msg.requiresResponse # Absent THEN msg.requiresResponse ELSE Absent]

\* payload of the sendMessage of the older client (part_002), which
\* bootstrap.ts calls with attachments and a non-empty flag list.
AcceptPayload(params) ==
  [chatId |-> params.chatId, text |-> params.text, contextTags |-> params.contextTags,
   attachments |-> params.attachments,
   coreForSenseContext |-> params.coreForSenseContext]

\* this.request("channel.accept", params) of sendMessage.
AcceptRequest(file, arg) ==
  [method |-> "channel.accept",
   params |-> IF file = "src/unnamed/part_000" THEN AcceptParams(arg)
              ELSE AcceptPayload(arg)]

\* An invocation of the callback: the event, the calls of
\* client.sendMessage it made with the requests they made, the promise of
\* that call, what it logged with console.error, and the promise the
\* callback returned.
Skipped(msg) ==
  [msg |-> msg, sendMessage |-> <<>>, request |-> <<>>, sendP |-> "none",
   logged |-> "none", promise |-> "resolved"]

Forwarding(file, msg) ==
  [msg |-> msg, sendMessage |-> <<SendMessageArgs(file, msg)>>,
   request |-> <<AcceptRequest(file, SendMessageArgs(file, msg))>>,
   sendP |-> "pending", logged |-> "none", promise |-> "pending"]

\* The callback given to handler.setOnMessage, up to its await.
OnMessageImpl(file, msg) ==
  IF ~HasContent(file, msg) THEN Skipped(msg) ELSE Forwarding(file, msg)

\* A callback without the try/catch around the forwarding.
OnSendRejectedUncaught(ev, err) ==
  [ev EXCEPT !.sendP = "rejected", !.promise = "rejected"]

\* catch (err) { console.error(...) } of the callback.
OnSendRejected(ev, err) ==
  [ev EXCEPT !.sendP = "rejected", !.logged = err, !.promise = "resolved"]

OnSendResolved(ev) ==
  [ev EXCEPT !.sendP = "resolved", !.promise = "resolved"]

\* The handler is started and the process runs: events can arrive.
Started == Running /\ \E i \in DOMAIN calls : calls[i] = "handler.start"

\* The errors sendMessage rejects with: no open socket, a response with
\* ok = false and a message of the gateway.
SendErrors == {"Ailo WebSocket not connected"} \cup ErrMsgs

\* The platform handler calls the callback with an event.
OnMessage(msg) ==
  /\ Started
  /\ Len(events) < MaxEvents
  /\ events' = Append(events, OnMessageImpl(bootstrap, msg))
  /\ UNCHANGED <<bootstrap, handlerDef, pc, calls, awaited, exitCode, clientVars, settings, dataVars, stdioVars>>

\* The promise of a sendMessage call is fulfilled.
SendResolves(i) ==
  /\ Running
  /\ i \in DOMAIN events /\ events[i].sendP = "pending"
  /\ events' = [events EXCEPT ![i] = OnSendResolved(@)]
  /\ UNCHANGED <<bootstrap, handlerDef, pc, calls, awaited, exitCode, clientVars, settings, dataVars, stdioVars>>

\* The promise of a sendMessage call is rejected.
SendRejects(i) ==
  /\ Running
  /\ i \in DOMAIN events /\ events[i].sendP = "pending"
  /\ \E err \in SendErrors : events' = [events EXCEPT ![i] = OnSendRejected(@, err)]
  /\ UNCHANGED <<bootstrap, handlerDef, pc, calls, awaited, exitCode, clientVars, settings, dataVars, stdioVars>>

\* ------------------------------------------------------ the inbound events
Texts == {Undefined, <<>>, <<" ", "\t">>, <<"h", "i">>}
AttachmentLists == {Undefined, <<>>, <<"image">>}
NoTimestamp == [kind |-> "absent", num |-> NaN, str |-> <<>>]
NumberTimestamp(n) == [kind |-> "number", num |-> n, str |-> <<>>]
StringTimestamp(s) == [kind |-> "string", num |-> NaN, str |-> s]

\* 1970-01-02 01:01:01 UTC in milliseconds.
SomeInstant == 90061000

Timestamps ==
  {NoTimestamp, NumberTimestamp(NaN), NumberTimestamp(Num(0)),
   NumberTimestamp(Num(0 - 60000)), NumberTimestamp(Num(SomeInstant)),
   StringTimestamp(<<"a", "b", "c">>), StringTimestamp(<<>>),
   StringTimestamp(<<"9", "0", "0", "6", "1", "0", "0", "0">>),
   StringTimestamp(<<"-", "5">>), StringTimestamp(<<" ", "6", "0", "0", "0", "0", "x">>)}

OptionalBooleans == {Absent, "true", "false"}
ChatNames == {Undefined, <<>>, <<"T", "e", "a", "m">>}
ChatIds == {<<>>, <<"c", "1">>, <<"o", "c", "_", "1", "2", "3", "4", "5", "6", "7">>}
SenderNames == {Undefined, <<"A", "n", "n">>}

\* The events of the tag protocol (part_000): they carry their context tags.
TagProtocolMessages ==
  [text : Texts, attachments : {Undefined, <<"image">>},
   contextTags : {<<>>, <<[kind |-> "chat_id", value |-> <<"c", "1">>]>>},
   requiresResponse : {Absent}]

\* The events of bootstrap.ts: the fields the tags are built from.
FieldMessages ==
  [chatId : ChatIds, chatType : {"group"}, chatName : ChatNames,
   senderName : SenderNames, senderId : {<<"u", "1">>},
   text : {<<"h", "i">>}, mentionsSelf : OptionalBooleans,
   attachments : {Undefined}, timestamp : Timestamps, isPrivate : OptionalBooleans]

\* Events of bootstrap.ts that differ in what the content test reads.
ContentMessages ==
  [chatId : {<<"c", "1">>}, chatType : {"group"}, chatName : {Undefined},
   senderName : {Undefined}, senderId : {<<"u", "1">>},
   text : Texts, mentionsSelf : {Absent},
   attachments : AttachmentLists, timestamp : {NoTimestamp}, isPrivate : {Absent}]

\* An event of the tag protocol reaches the callback of part_000.
OnTagMessage(msg) ==
  /\ bootstrap = "src/unnamed/part_000"
  /\ OnMessage(msg)

\* An event reaches the callback of bootstrap.ts.
OnFieldMessage(msg) ==
  /\ bootstrap = "src/src/bootstrap.ts"
  /\ OnMessage(msg)

\* The configs and environments a channel process is started with: a
\* setting is not given, empty, or given.
Configs == [SettingKeys -> {Undefined, <<>>, <<"x">>}]
Envs == [EnvNames -> {Undefined, <<"x">>}]

\* Every setting given in the config.
FullConfig == [k \in SettingKeys |-> <<"x">>]

NextBoot ==
  \/ /\ pc = "notCalled"
     /\ \E file \in Bootstraps, h \in HandlerDefs, config \in Configs, env \in Envs :
          RunMcpChannel(file, h, config, env)
  \/ McpConnected
  \/ McpFailed
  \/ ConnectResolved
  \/ ConnectRejected
  \/ StartResolved
  \/ StartRejected
  \/ Shutdown

\* runMcpChannel: its startup and its signal handler, for every handler.
SpecBoot == Init /\ [][NextBoot]_vars

\* A handler that defines every optional method.
FullHandlers == {h \in HandlerDefs : h.setDataProvider /\ h.stop}

NextEvents ==
  \/ \E file \in Bootstraps, h \in FullHandlers : RunMcpChannel(file, h, FullConfig, NoSettings.env)
  \/ McpConnected
  \/ ConnectResolved
  \/ StartResolved
  \/ Shutdown
  \/ \E msg \in TagProtocolMessages : OnTagMessage(msg)
  \/ \E msg \in ContentMessages : OnFieldMessage(msg)
  \/ \E i \in 1..MaxEvents : SendResolves(i)
  \/ \E i \in 1..MaxEvents : SendRejects(i)

\* runMcpChannel with the inbound events of a started handler.
SpecEvents == Init /\ [][NextEvents]_vars

\* One event of bootstrap.ts, of any shape, reaches the callback.
OnFirstMessage(msg) ==
  /\ events = <<>>
  /\ bootstrap = "src/src/bootstrap.ts"
  /\ OnMessage(msg)

NextTags ==
  \/ \E h \in HandlerDefs : RunMcpChannel("src/src/bootstrap.ts", h, FullConfig, NoSettings.env)
  \/ McpConnected
  \/ ConnectResolved
  \/ StartResolved
  \/ \E msg \in FieldMessages : OnFirstMessage(msg)

\* The tags and flags the callback of bootstrap.ts builds for one event.
SpecTags == Init /\ [][NextTags]_vars

\* The tag lists of an event of the tag protocol: without a chat id, with
\* one, with an empty one, behind another tag, and with two.
TagLists ==
  {<<>>,
   <<[kind |-> "chat_id", value |-> <<"c", "1">>]>>,
   <<[kind |-> "chat_id", value |-> <<>>]>>,
   <<[kind |-> "chat_type", value |-> <<"g">>], [kind |-> "chat_id", value |-> <<"c", "1">>]>>,
   <<[kind |-> "chat_id", value |-> <<"c", "1">>], [kind |-> "chat_id", value |-> <<"c", "2">>]>>,
   <<[kind |-> "chat_id", value |-> <<>>], [kind |-> "chat_id", value |-> <<"c", "2">>]>>}

AcceptMessages ==
  [text : {Undefined, <<"h", "i">>}, attachments : AttachmentLists,
   contextTags : TagLists, requiresResponse : OptionalBooleans]

\* One event of the tag protocol, of any shape, reaches the callback.
OnAcceptMessage(msg) ==
  /\ events = <<>>
  /\ OnTagMessage(msg)

NextAccept ==
  \/ \E h \in HandlerDefs : RunMcpChannel("src/unnamed/part_000", h, FullConfig, NoSettings.env)
  \/ McpConnected
  \/ ConnectResolved
  \/ StartResolved
  \/ \E msg \in AcceptMessages : OnAcceptMessage(msg)

\* The channel.accept request the client makes for one event.
SpecAccept == Init /\ [][NextAccept]_vars

\* -------------------------------------------------------- the channel data
\* The values the channel stores; the empty string is one of them.
Values == {"", "a"}

\* A getData, setData or deleteData call.
DataCalls ==
  [op : {"get", "delete"}, key : Keys, value : {""}]
    \cup [op : {"set"}, key : Keys, value : Values]

\* The method of the request a data call makes.
DataMethod(op) ==
  CASE op = "get" -> "channel.data.get"
    [] op = "set" -> "channel.data.set"
    [] op = "delete" -> "channel.data.delete"

\* The gateway's store after it has served the request of a call.
Served(kv, c) ==
  CASE c.op = "set" -> [kv EXCEPT ![c.key] = [stored |-> TRUE, value |-> c.value]]
    [] c.op = "delete" -> [kv EXCEPT ![c.key] = NotStored]
    [] OTHER -> kv

\* The payload of a channel.data.get response as the client reads it after
\* JSON.parse: found, and value when the key that holds it is present.
GetPayloads ==
  {r \in [found : BOOLEAN, hasValue : BOOLEAN, value : Values] :
     ~r.hasValue => r.value = ""}

\* The text of a payload on the wire.
Json(r) ==
  "{found:" \o (IF r.found THEN "true" ELSE "false")
    \o (IF r.hasValue THEN ",value:'" \o r.value \o "'" ELSE "") \o "}"

\* The payload the gateway answers a call with: found and value for a get,
\* none for a set or a delete.
Reply(kv, c) ==
  IF c.op = "get"
  THEN Json([found |-> kv[c.key].stored, hasValue |-> kv[c.key].stored,
             value |-> kv[c.key].value])
  ELSE Absent

\* The object a request promise was resolved with: `{}` has no found.
ParsePayload(text) ==
  IF text = "{}" THEN [found |-> FALSE, hasValue |-> FALSE, value |-> ""]
  ELSE CHOOSE r \in GetPayloads : Json(r) = text

\* What a data call returns: null or a string.
Null == [null |-> TRUE, value |-> ""]
Str(v) == [null |-> FALSE, value |-> v]

\* A getData that returns res.value || null.
GetDataResultFalsy(res) ==
  IF res.found /\ res.hasValue /\ res.value # "" THEN Str(res.value) ELSE Null

\* return res.found ? (res.value ?? null) : null
GetDataResult(res) ==
  IF res.found THEN (IF res.hasValue THEN Str(res.value) ELSE Null) ELSE Null

\* getData(key), setData(key, value) or deleteData(key) is called on a
\* connected client: request() sends the frame, the gateway serves it in
\* the order of arrival and writes its response.
DataCall(c) ==
  /\ Len(dataOps) < MaxDataOps
  /\ IsConnected(St)
  /\ LET st1 == RequestImpl(St, DataMethod(c.op)) IN
     /\ BecomesClient(st1)
     /\ store' = Served(store, c)
     /\ dataOps' = Append(dataOps, [call |-> c, n |-> st1.reqId, reply |-> Reply(store, c),
                                    state |-> "pending", result |-> Null])
  /\ UNCHANGED <<bootVars, stdioVars>>

\* The response of the i-th data call arrives: the request promise is
\* settled and the call returns.
DataResponse(i) ==
  /\ i \in DOMAIN dataOps /\ dataOps[i].state = "pending"
  /\ LET op == dataOps[i]
         s == reqLog[op.n].sock
         frame == ResFrame(CorrelationId(reqLog[op.n].method, op.n), TRUE, op.reply, Absent)
         st1 == RunOnMsg(RunHandlers(St, s, frame), s, frame)
         p == st1.reqLog[op.n].promise
     IN  /\ readyState[s] \in {"OPEN", "CLOSING"} /\ s \notin destroyed
         /\ BecomesClient(st1)
         /\ dataOps' = [dataOps EXCEPT
              ![i].state = IF p.state = "resolved" THEN "fulfilled" ELSE p.state,
              ![i].result = IF p.state = "resolved" /\ op.call.op = "get"
                            THEN GetDataResult(ParsePayload(p.value)) ELSE Null]
  /\ UNCHANGED <<store, bootVars, stdioVars>>

NextData ==
  \/ UserConnect
  \/ \E s \in Sockets : SocketOpen(s)
  \/ \E s \in Sockets : DeliverAck(s)
  \/ \E c \in DataCalls : DataCall(c)
  \/ \E i \in 1..MaxDataOps : DataResponse(i)

\* A connected client reads and writes the channel data of the gateway.
SpecData == Init /\ [][NextData]_vars

\* ---------------------------------------------------------- the stdio guard
\* A text is a sequence of runs: n times the character c. Only the filler
\* character "x" is ever repeated, and a text holds no two adjacent runs of
\* it, so that equal texts are equal sequences.
Ch(c) == [c |-> c, n |-> 1]
Run(c, n) == [c |-> c, n |-> n]

\* a + b
RECURSIVE Concat(_, _)
Concat(a, b) ==
  IF a = <<>> THEN b
  ELSE IF b = <<>> THEN a
  ELSE IF a[Len(a)].c = "x" /\ Head(b).c = "x"
  THEN Concat(SubSeq(a, 1, Len(a) - 1),
              <<Run("x", a[Len(a)].n + Head(b).n)>> \o Tail(b))
  ELSE a \o b

\* text.length
RECURSIVE TextLen(_)
TextLen(text) == IF text = <<>> THEN 0 ELSE Head(text).n + TextLen(Tail(text))

\* text.slice(-k), for k > 0
RECURSIVE SliceLast(_, _)
SliceLast(text, k) ==
  IF text = <<>> THEN <<>>
  ELSE LET last == text[Len(text)] IN
       IF last.n >= k THEN <<Run(last.c, k)>>
       ELSE SliceLast(SubSeq(text, 1, Len(text) - 1), k - last.n) \o <<last>>

\* text.split(/\r?\n/): the pieces between the line ends, the last one the
\* text after the last line end.
RECURSIVE SplitLines(_, _, _)
SplitLines(text, piece, done) ==
  IF text = <<>> THEN Append(done, piece)
  ELSE IF Head(text).c = "\n"
  THEN SplitLines(Tail(text), <<>>,
         Append(done, IF piece # <<>> /\ piece[Len(piece)].c = "\r"
                      THEN SubSeq(piece, 1, Len(piece) - 1) ELSE piece))
  ELSE SplitLines(Tail(text), Append(piece, Head(text)), done)

\* line.trim()
RECURSIVE TrimText(_)
TrimText(line) ==
  IF line = <<>> THEN <<>>
  ELSE IF Head(line).c \in Whitespace THEN TrimText(Tail(line))
  ELSE IF line[Len(line)].c \in Whitespace THEN TrimText(SubSeq(line, 1, Len(line) - 1))
  ELSE line

\* routeLine(line)
RouteLine(line) ==
  LET trimmed == TrimText(line) IN
  IF trimmed = <<>> THEN "stderr"
  ELSE IF Head(trimmed).c = "{" THEN "stdout" ELSE "stderr"

\* The lines of a list that routeLine sends to a destination, as the
\* entries of the stream they are written to.
RECURSIVE Routed(_, _, _)
Routed(lines, dest, via) ==
  IF lines = <<>> THEN <<>>
  ELSE (IF RouteLine(Head(lines)) = dest THEN <<[via |-> via, line |-> Head(lines)]>> ELSE <<>>)
         \o Routed(Tail(lines), dest, via)

\* The guarded process.stdout.write(chunk): the chunk is appended to
\* lineBuffer, the buffer is cut to its last MAX_LINE_BUFFER characters,
\* its complete lines are routed and the rest is held back.
GuardedWrite(by, chunk) ==
  LET joined == Concat(lineBuffer, chunk)
      kept == IF TextLen(joined) > MAX_LINE_BUFFER
              THEN SliceLast(joined, MAX_LINE_BUFFER) ELSE joined
      lines == SplitLines(kept, <<>>, <<>>)
      complete == SubSeq(lines, 1, Len(lines) - 1)
  IN  /\ lineBuffer' = lines[Len(lines)]
      /\ realStderr' = realStderr \o Routed(complete, "stderr", "write")
      /\ realStdout' = realStdout \o Routed(complete, "stdout", "write")
      /\ writes' = Append(writes, [by |-> by, chunk |-> chunk])
      /\ UNCHANGED <<flushed, clientVars, bootVars, dataVars>>

\* The chunks of text made of the given number of pieces.
RECURSIVE Chunks(_, _)
Chunks(pieces, length) ==
  IF length = 0 THEN {<<>>}
  ELSE {Concat(<<p>>, rest) : p \in pieces, rest \in Chunks(pieces, length - 1)}

\* What a logger writes: any text, with or without a line end, a text
\* longer than the buffer included.
LoggerChunks ==
  UNION {Chunks({Ch("{"), Ch("x"), Ch(" "), Ch("\n"), Ch("\r"), Run("x", MAX_LINE_BUFFER)},
                length) : length \in 1..MaxChunk}

\* What the MCP transport writes: one JSON-RPC message and a line end.
ProtocolLines ==
  {<<Ch("{"), Ch("x"), Ch("\n")>>, <<Ch("{"), Run("x", MAX_LINE_BUFFER), Ch("\n")>>}

\* The MCP stdio transport writes a message to process.stdout.
ProtocolWrite(line) ==
  /\ ~flushed /\ Len(writes) < MaxWrites
  /\ GuardedWrite("protocol", line)

\* A logger writes to process.stdout.
LoggerWrite(chunk) ==
  /\ ~flushed /\ Len(writes) < MaxWrites
  /\ GuardedWrite("logger", chunk)

\* console.log, console.info, console.debug or console.trace is called: the
\* text goes to console.error.
ConsoleLog(text) ==
  /\ ~flushed /\ Len(realStderr) < MaxWrites
  /\ realStderr' = Append(realStderr, [via |-> "console", line |-> text])
  /\ UNCHANGED <<lineBuffer, realStdout, writes, flushed, clientVars, bootVars, dataVars>>

\* The beforeExit listener: an unfinished line is written out, to stderr
\* behind the prefix of the guard (the piece "#" stands for it).
BeforeExit ==
  /\ ~flushed
  /\ flushed' = TRUE
  /\ IF lineBuffer = <<>> THEN UNCHANGED <<realStdout, realStderr>>
     ELSE IF RouteLine(lineBuffer) = "stdout"
     THEN /\ realStdout' = Append(realStdout, [via |-> "beforeExit", line |-> lineBuffer])
          /\ UNCHANGED realStderr
     ELSE /\ realStderr' = Append(realStderr, [via |-> "beforeExit",
                                               line |-> <<Ch("#")>> \o lineBuffer])
          /\ UNCHANGED realStdout
  /\ UNCHANGED <<lineBuffer, writes, clientVars, bootVars, dataVars>>

NextStdio ==
  \/ \E line \in ProtocolLines : ProtocolWrite(line)
  \/ \E chunk \in LoggerChunks : LoggerWrite(chunk)
  \/ \E text \in {<<Ch("x")>>, <<Ch("{"), Ch("x")>>} : ConsoleLog(text)
  \/ BeforeExit

\* A process with the stdio guard installed, its transport and its loggers.
SpecStdio == Init /\ [][NextStdio]_vars

\* ================================================================= claims
IsRequest(n) == reqLog[n].method \in Methods
Settled(p) == p.state \in {"resolved", "rejected"}
LiveSockets == {s \in Sockets : readyState[s] \in {"CONNECTING", "OPEN"}}

\* C1: a request is settled only by the arrival of the response frame that
\* carries its own correlation id, and with that frame's payload or error; a
\* frame with another id or of another type settles nothing, in whatever
\* order the gateway answers.
C1_RoutedByCorrelationId ==
  \A n \in 1..Len(reqLog) :
    (IsRequest(n) /\ Settled(reqLog[n].promise)) =>
      LET p == reqLog[n].promise IN
      /\ p.frame.type = "res"
      /\ p.frame.id = CorrelationId(reqLog[n].method, n)
      /\ p.frame.ok => (p.state = "resolved"
                        /\ (p.frame.payload # Absent => p.value = p.frame.payload))
      /\ ~p.frame.ok => (p.state = "rejected"
                         /\ (p.frame.error # Absent => p.value = p.frame.error))

\* C1 witness: two requests on one socket, the later one answered first with
\* its own payload while the earlier one is still pending.
C1_Witness ==
  \E a, b \in 1..Len(reqLog) :
    /\ a < b /\ IsRequest(a) /\ IsRequest(b)
    /\ reqLog[a].sock = reqLog[b].sock
    /\ reqLog[a].promise.state = "pending"
    /\ reqLog[b].promise.state = "resolved"
    /\ reqLog[b].promise.value = "P1"

\* C2 (as claimed): once the socket that carried a request has closed, the
\* request is no longer pending (it was rejected with a connection-lost error).
C2_NoPendingAfterClose ==
  \A n \in 1..Len(reqLog) :
    (IsRequest(n) /\ readyState[reqLog[n].sock] = "CLOSED") =>
      reqLog[n].promise.state # "pending"

\* C3 (as claimed): a step that ends with close() having been called neither
\* schedules a reconnect timer nor opens a socket.
C3_NoReconnectAfterClose ==
  [][closeCalled' => (timers' \subseteq timers /\ numSockets' = numSockets)]_vars

\* C4: request() called while no socket is held, or the held socket is not
\* OPEN, rejects with the not-connected error and changes nothing else: no
\* frame sent, no listener attached, no id taken, nothing kept for later.
C4_NotConnectedFailsFast ==
  [][\A method \in Methods :
       (Request(method) /\ (ws = NoSocket \/ readyState[ws] # "OPEN")) =>
         /\ lastCall' = "Ailo WebSocket not connected"
         /\ UNCHANGED <<ws, reconnectTimer, reqId, timers, numSockets, readyState,
                        connectP, caller, onReconnect, regId, onMsg, handlers,
                        reqLog, sent, destroyed, closeCalled>>]_vars

\* C4 witness: a request was rejected while the client holds a socket that
\* is still connecting, after an earlier request had been sent.
C4_Witness ==
  /\ lastCall = "Ailo WebSocket not connected"
  /\ ws # NoSocket /\ readyState[ws] = "CONNECTING"
  /\ \E n \in 1..Len(reqLog) : IsRequest(n)

\* A reconnection attempt (a connect() made by the timer) that failed: its
\* promise was rejected, or its socket closed.
FailedAttempt(s) ==
  /\ caller[s] = "timer"
  /\ (connectP[s].state = "rejected" \/ readyState[s] = "CLOSED")

\* C5: while close() has not been called, every failed reconnection attempt
\* is followed by another one, already made or scheduled, and every
\* scheduled attempt has the one fixed delay.
C5_RetriedWithFixedDelay ==
  /\ \A t \in timers : t.delay = 3000
  /\ ~closeCalled =>
       \A s \in Sockets :
         FailedAttempt(s) => (numSockets > s \/ reconnectTimer # NoTimer)

\* C5 witness: two consecutive reconnection attempts failed and a further
\* one is scheduled with the fixed delay.
C5_Witness ==
  /\ ~closeCalled
  /\ \E s \in Sockets :
       /\ s + 1 \in Sockets
       /\ FailedAttempt(s) /\ FailedAttempt(s + 1)
       /\ numSockets = s + 1
  /\ \E t \in timers : t.id = reconnectTimer /\ t.delay = 3000

\* C6: at most one reconnect timer is pending, and it is the one
\* this.reconnectTimer holds.
C6_OneReconnectTimer ==
  /\ Cardinality(timers) <= 1
  /\ \A t \in timers : t.id = reconnectTimer
  /\ reconnectTimer # NoTimer => timers # {}

\* C6 witness: the rejection handler and the close event of one failed
\* reconnection attempt both called scheduleReconnect, and one timer is pending.
C6_Witness ==
  /\ ~closeCalled
  /\ Cardinality(timers) = 1
  /\ \E s \in Sockets :
       /\ caller[s] = "timer"
       /\ connectP[s].state = "rejected"
       /\ readyState[s] = "CLOSED"
       /\ numSockets = s

\* C7 (as claimed): at most one socket of the instance is connecting or
\* open; stated for the runs in which close() is never called, so that the
\* run that refutes it owes nothing to what follows a close().
C7_OneLiveSocket == ~closeCalled => Cardinality(LiveSockets) <= 1

\* C8 (as claimed): after a connect() called by the user was rejected
\* with the transport error of a socket that never opened, the client has
\* scheduled no reconnect and opened no further socket.
C8_NoImplicitRetry ==
  \A s \in Sockets :
    (/\ caller[s] = "user" /\ regId[s] = NoId /\ ~closeCalled
     /\ connectP[s] = [state |-> "rejected", value |-> "transport error", frame |-> NoFrame]) =>
      (reconnectTimer = NoTimer /\ timers = {} /\ numSockets = s)

\* The registration request was sent on socket s and the response frame with
\* its id and ok = true arrived.
RegistrationAcknowledged(s) ==
  /\ regId[s] # NoId
  /\ \E i \in 1..Len(sent[s]) :
       LET f == sent[s][i] IN
       /\ f.type = "req" /\ f.method = "connect" /\ f.id = regId[s]
       /\ f.params.role = "channel"
       /\ f.params.token = Config.token
       /\ f.params.channel = Config.channel
       /\ f.params.displayName = Config.displayName
       /\ f.params.defaultRequiresResponse = Config.defaultRequiresResponse
       /\ f.params.prompt = Config.channelPrompt
  /\ LET p == reqLog[regId[s][2]].promise IN
     /\ p.state = "resolved"
     /\ p.frame.type = "res" /\ p.frame.id = regId[s] /\ p.frame.ok

\* C9: a connect() promise is resolved only after a registration request
\* was sent on a socket opened by it or by a later reconnection, and the
\* response with that request's id and ok = true was received.
C9_ResolvedOnlyAfterRegistration ==
  \A s \in Sockets :
    connectP[s].state = "resolved" =>
      \E s2 \in Sockets : s2 >= s /\ RegistrationAcknowledged(s2)

\* C9 witness: a connect() resolved by the acknowledgement of its own socket.
C9_Witness ==
  \E s \in Sockets : connectP[s].state = "resolved" /\ RegistrationAcknowledged(s)

\* The registration of socket s was answered with ok = false.
RegistrationRefused(s) ==
  /\ regId[s] # NoId
  /\ reqLog[regId[s][2]].promise.state = "rejected"

\* C10: when the registration response has ok = false, connect() is
\* rejected with the gateway's message ("connect failed" when it gives
\* none) and is not resolved.
C10_RegistrationRejectionSurfaced ==
  \A s \in Sockets :
    RegistrationRefused(s) =>
      LET frame == reqLog[regId[s][2]].promise.frame IN
      /\ frame.type = "res" /\ ~frame.ok /\ frame.id = regId[s]
      /\ connectP[s].state = "rejected"
      /\ connectP[s].value = (IF frame.error = Absent THEN "connect failed" ELSE frame.error)

\* C10 witness: a registration refused with a message of the gateway.
C10_Witness ==
  \E s \in Sockets :
    /\ RegistrationRefused(s)
    /\ reqLog[regId[s][2]].promise.frame.error = "E1"
    /\ connectP[s] = [state |-> "rejected", value |-> "E1", frame |-> NoFrame]

\* The frames a socket can still deliver to its listeners.
Delivers(s) == readyState[s] \in {"OPEN", "CLOSING"} /\ s \notin destroyed

PendingOn(s) ==
  {n \in 1..Len(reqLog) :
     IsRequest(n) /\ reqLog[n].sock = s /\ reqLog[n].promise.state = "pending"}

\* C13 (as claimed): on an open socket the number of attached request
\* listeners equals the number of requests still pending on that socket;
\* stated for the runs in which close() is never called.
C13_ListenersArePending ==
  ~closeCalled =>
    \A s \in Sockets :
      readyState[s] = "OPEN" => Cardinality(handlers[s]) = Cardinality(PendingOn(s))

\* Every frame the client has sent, with the socket and the position.
AllSent ==
  UNION {{[sock |-> s, pos |-> i, frame |-> sent[s][i]] : i \in 1..Len(sent[s])} : s \in Sockets}

\* C14: the id of every frame sent is "<method>-<n>" with n the value the
\* counter took for it; the counter counts the frames sent (requests and
\* registrations), never decreases and is not reset by a reconnect or by
\* close(); no two frames carry the same id, and the request pending under
\* an id is the one request that was sent with it.
C14_IdsNeverReused ==
  /\ [](/\ reqId = Len(reqLog)
        /\ Cardinality(AllSent) = reqId
        /\ \A x \in AllSent :
             /\ x.frame.id[2] \in 1..reqId
             /\ x.frame.id = CorrelationId(x.frame.method, x.frame.id[2])
             /\ reqLog[x.frame.id[2]].method = x.frame.method
             /\ reqLog[x.frame.id[2]].sock = x.sock
        /\ \A x, y \in AllSent : x.frame.id = y.frame.id => x = y)
  /\ [][/\ reqId' >= reqId
        /\ \A s \in Sockets : Len(sent'[s]) > Len(sent[s]) => reqId' = reqId + 1]_vars

\* C14 witness: after a reconnect and after close(), frames were sent on two
\* sockets with the numbers 1, 2 and 3.
C14_Witness ==
  /\ closeCalled
  /\ reqId = 3
  /\ \E s1, s2 \in Sockets : s1 # s2 /\ sent[s1] # <<>> /\ sent[s2] # <<>>
  /\ \E n \in 1..Len(reqLog) : IsRequest(n)

\* C15: a request settled by a frame with ok = false is rejected with the
\* frame's error message, "<method> failed" when it has none; one settled by
\* a frame with ok = true is resolved with the frame's payload, the empty
\* object when it has none.
C15_OutcomeFollowsOk ==
  \A n \in 1..Len(reqLog) :
    (IsRequest(n) /\ Settled(reqLog[n].promise)) =>
      LET p == reqLog[n].promise IN
      IF p.frame.ok
      THEN /\ p.state = "resolved"
           /\ p.value = (IF p.frame.payload = Absent THEN "{}" ELSE p.frame.payload)
      ELSE /\ p.state = "rejected"
           /\ p.value = (IF p.frame.error = Absent
                         THEN reqLog[n].method \o " failed" ELSE p.frame.error)

\* C15 witness: one request rejected with the default message and one
\* resolved with the empty object.
C15_Witness ==
  \E a, b \in 1..Len(reqLog) :
    /\ IsRequest(a) /\ IsRequest(b)
    /\ reqLog[a].promise.state = "rejected"
    /\ reqLog[a].promise.value = reqLog[a].method \o " failed"
    /\ reqLog[b].promise.state = "resolved"
    /\ reqLog[b].promise.value = "{}"

\* An established connection was lost: the registration of socket s had
\* been acknowledged and the socket has closed.
EstablishedThenClosed(s) ==
  RegistrationAcknowledged(s) /\ readyState[s] = "CLOSED"

\* The client holds an open socket, made after s, whose registration has
\* been acknowledged.
ReestablishedAfter(s) ==
  \E s2 \in Sockets :
    /\ s2 > s /\ ws = s2 /\ readyState[s2] = "OPEN"
    /\ RegistrationAcknowledged(s2)

\* C11: when a socket whose registration was acknowledged closes (close()
\* never called), the connect() that it resolved stays resolved and a
\* reconnect is scheduled or already made; with a timer that fires and a
\* gateway that finally accepts, from the moment the latest socket is such
\* a lost connection the client comes to hold a later socket that is open
\* and on which the registration has been acknowledged again.
C11_ReconnectsAfterLoss ==
  /\ [](\A s \in Sockets :
          EstablishedThenClosed(s) =>
            /\ connectP[s].state = "resolved"
            /\ (reconnectTimer # NoTimer \/ numSockets > s))
  /\ (\E s \in Sockets : EstablishedThenClosed(s) /\ numSockets = s)
       ~> (\E s \in Sockets : EstablishedThenClosed(s) /\ ReestablishedAfter(s))

\* C11 witness: an established connection was lost and the client holds a
\* later socket, open and acknowledged.
C11_Witness ==
  \E s \in Sockets :
    /\ EstablishedThenClosed(s)
    /\ connectP[s].state = "resolved"
    /\ ReestablishedAfter(s)

\* runMcpChannel has made the call c; the position of its first occurrence.
Called(c) == \E i \in DOMAIN calls : calls[i] = c
Position(c) == CHOOSE i \in DOMAIN calls : calls[i] = c

\* C16 (as claimed): when handler.start() has been called, the MCP server
\* was connected before client.connect() was called, connect() has
\* resolved, and, when the handler defines setDataProvider, it was called
\* with the client after connect() and before handler.start().
C16_StartupOrder ==
  Called("handler.start") =>
    /\ Called("mcpServer.connect") /\ Called("client.connect")
    /\ Position("mcpServer.connect") < Position("client.connect")
    /\ Position("client.connect") < Position("handler.start")
    /\ awaited.mcp = "resolved" /\ awaited.connect = "resolved"
    /\ handlerDef.setDataProvider =>
         /\ Called("handler.setDataProvider")
         /\ Position("client.connect") < Position("handler.setDataProvider")
         /\ Position("handler.setDataProvider") < Position("handler.start")

\* C17: when the connect() of the startup was rejected, or the promise of
\* handler.start() was rejected, the process has exited with a non-zero
\* status; after a rejected connect() neither setDataProvider nor
\* handler.start() has been called, in that step or in any later one.
C17_StartupFailureIsFatal ==
  /\ (awaited.connect = "rejected" \/ awaited.start = "rejected") =>
       (exitCode # NotExited /\ exitCode # 0)
  /\ awaited.connect = "rejected" =>
       (~Called("handler.setDataProvider") /\ ~Called("handler.start"))

\* C17 witness: the connect() of the startup was rejected for a handler
\* that defines setDataProvider, under the generation that injects it.
C17_Witness ==
  /\ bootstrap = "src/unnamed/part_000"
  /\ handlerDef.setDataProvider
  /\ awaited.connect = "rejected"
  /\ exitCode = 1

\* What the claims say of an event, stated on the event itself.
BlankText(msg) ==
  msg.text = Undefined \/ \A k \in DOMAIN msg.text : msg.text[k] \in Whitespace
NoAttachments(msg) == msg.attachments = Undefined \/ msg.attachments = <<>>
NoContextTags(msg) == bootstrap # "src/unnamed/part_000" \/ msg.contextTags = <<>>
EmptyEvent(msg) == BlankText(msg) /\ NoAttachments(msg) /\ NoContextTags(msg)

\* C18: a sendMessage that rejects is logged and swallowed: the promise of
\* the callback is resolved, never rejected, the step leaves the process
\* running, and every event with content that comes after a failed one has
\* its sendMessage call.
C18_ForwardFailureSwallowed ==
  /\ [](\A i \in DOMAIN events :
          /\ events[i].promise # "rejected"
          /\ events[i].sendP = "rejected" =>
               /\ events[i].logged \in SendErrors
               /\ events[i].promise = "resolved"
               /\ \A j \in DOMAIN events :
                    (j > i /\ ~EmptyEvent(events[j].msg)) => Len(events[j].sendMessage) = 1)
  /\ [][\A i \in DOMAIN events :
          (events[i].sendP = "pending" /\ events'[i].sendP = "rejected") =>
            (exitCode' = exitCode /\ pc' = pc)]_vars

\* C18 witness: the first event failed with the not-connected error, was
\* logged, and the second event was forwarded and answered.
C18_Witness ==
  /\ Running
  /\ Len(events) = 2
  /\ events[1].sendP = "rejected"
  /\ events[1].logged = "Ailo WebSocket not connected"
  /\ events[1].promise = "resolved"
  /\ events[2].sendP = "resolved"

\* C19: an event with blank text, no attachment and, in the tag protocol,
\* no context tag makes no sendMessage call; every other event makes
\* exactly one.
C19_EmptyEventsDropped ==
  \A i \in DOMAIN events :
    IF EmptyEvent(events[i].msg)
    THEN events[i].sendMessage = <<>>
    ELSE Len(events[i].sendMessage) = 1

\* C19 witness: an event with whitespace-only text and an empty attachment
\* list was dropped, and an event with nothing but a context tag was forwarded.
C19_Witness ==
  /\ bootstrap = "src/unnamed/part_000"
  /\ Len(events) = 2
  /\ events[1].msg.text = <<" ", "\t">>
  /\ events[1].sendMessage = <<>>
  /\ BlankText(events[2].msg) /\ NoAttachments(events[2].msg)
  /\ events[2].msg.contextTags # <<>>
  /\ Len(events[2].sendMessage) = 1

\* C20: in the params of every forwarded event of bootstrap.ts the flag
\* list is as long as the tag list and has no true after a false; for a
\* private session every flag is true; otherwise the flag of a tag is true
\* exactly for chat_type, chat_id and chat_name.
C20_FlagsLeadingTrue ==
  \A i \in DOMAIN events :
    (bootstrap = "src/src/bootstrap.ts" /\ events[i].sendMessage # <<>>) =>
      LET tags == events[i].sendMessage[1].contextTags
          flags == events[i].sendMessage[1].coreForSenseContext
      IN  /\ Len(flags) = Len(tags)
          /\ \A a, b \in DOMAIN flags : (a < b /\ flags[b]) => flags[a]
          /\ IF events[i].msg.isPrivate = "true"
             THEN \A k \in DOMAIN flags : flags[k]
             ELSE \A k \in DOMAIN flags :
                    flags[k] <=> tags[k].key \in {"chat_type", "chat_id", "chat_name"}

\* C20 witness: a group event with a chat name, a mention and a timestamp:
\* three flags true, then four false.
C20_Witness ==
  \E i \in DOMAIN events :
    /\ events[i].sendMessage # <<>>
    /\ events[i].msg.isPrivate = "false"
    /\ events[i].msg.chatName = <<"T", "e", "a", "m">>
    /\ events[i].sendMessage[1].coreForSenseContext =
         <<TRUE, TRUE, TRUE, FALSE, FALSE, FALSE, FALSE>>

\* C22: a close() called when the client is as a close() leaves it (no
\* socket handle, no reconnect timer, close() called before) changes
\* nothing: no socket is closed again, no error is raised, every variable
\* keeps its value.
C22_CloseIdempotent ==
  [][(closeCalled /\ ws = NoSocket /\ reconnectTimer = NoTimer /\ Close)
       => UNCHANGED vars]_vars

\* C22 witness: close() was called on an open socket, whose close event has
\* not arrived yet; the client holds no handle and no timer.
C22_Witness ==
  /\ closeCalled /\ ws = NoSocket /\ reconnectTimer = NoTimer
  /\ lastCall = "sent"
  /\ \E s \in Sockets : readyState[s] = "CLOSING" /\ s \notin destroyed

\* C25 (as claimed): while close() has not been called and the most
\* recently created socket is open and its registration acknowledged, the
\* handle refers to that socket (the close of an older socket has not
\* cleared it), so that request() does not fail with "not connected".
C25_HandleFollowsNewestSocket ==
  (~closeCalled /\ numSockets > 0) =>
    LET s == numSockets IN
    (readyState[s] = "OPEN" /\ RegistrationAcknowledged(s)) => ws = s

\* C26 (as claimed): once the connect() of the user has resolved, every
\* request frame the client sends goes to a socket whose registration has
\* been acknowledged.
C26_NoRequestBeforeRegistration ==
  [][\A method \in Methods :
       (/\ ~closeCalled
        /\ connectP[1].state = "resolved"
        /\ Request(method) /\ reqId' = reqId + 1)
         => RegistrationAcknowledged(ws)]_vars

\* C27 (as claimed): when the socket of the user's connect() has closed
\* with that promise not rejected and a later socket has had its
\* registration acknowledged, the promise is resolved.
C27_ResolveCallbackKept ==
  ~closeCalled =>
    \A s \in Sockets :
      (/\ caller[s] = "user" /\ readyState[s] = "CLOSED"
       /\ connectP[s].state # "rejected"
       /\ \E s2 \in Sockets : s2 > s /\ RegistrationAcknowledged(s2))
        => connectP[s].state = "resolved"

\* The environment variables the running runMcpChannel reads for a setting.
ReadNames(key) ==
  IF bootstrap = "src/src/bootstrap.ts" THEN {AIDO[key], AILO[key]} ELSE {AILO[key]}

\* A setting is given neither in the config nor in the environment.
MissingSetting ==
  \E key \in SettingKeys :
    /\ settings.config[key] = Undefined
    /\ \A name \in ReadNames(key) : settings.env[name] = Undefined

\* C24: when runMcpChannel has been called with the gateway URL, the token
\* or the channel name given neither in the config nor in the environment,
\* the process has exited with status 1 and nothing was started: no call
\* on a collaborator (new AiloClient, setOnMessage, mcpServer.connect,
\* client.connect, handler.start), no promise awaited, no socket, no event.
C24_MissingConfigExits ==
  (pc # "notCalled" /\ MissingSetting) =>
    /\ pc = "exited" /\ exitCode = 1
    /\ calls = <<>>
    /\ awaited = [mcp |-> "none", connect |-> "none", start |-> "none"]
    /\ numSockets = 0 /\ ws = NoSocket
    /\ events = <<>>

\* C24 witness: runMcpChannel was called with the URL and the token given
\* and the channel name given nowhere, and the process has exited.
C24_Witness ==
  /\ pc = "exited" /\ exitCode = 1 /\ MissingSetting
  /\ settings.config["ailoWsUrl"] = <<"x">>
  /\ settings.env["AILO_TOKEN"] = <<"x">>
  /\ settings.config["channelName"] = Undefined

\* A timestamp that is a valid positive number: a number that is not NaN
\* and above zero, or a string that is the decimal numeral of one.
ValidPositiveNumber(ts) ==
  CASE ts.kind = "number" -> ~ts.num.nan /\ ts.num.n > 0
    [] ts.kind = "string" ->
         LET t == Trim(ts.str) IN
         /\ t # <<>>
         /\ \A j \in DOMAIN t : IsDigit(t[j])
         /\ DigitsValue(t, 0) > 0
    [] OTHER -> FALSE

\* A chat name or a non-empty chat id exists in a non-private session.
HasGroupLabel(msg) ==
  /\ msg.isPrivate # "true"
  /\ (msg.chatName \notin {Undefined, <<>>} \/ msg.chatId # <<>>)

\* The tag keys the claim prescribes for an event.
ExpectedKeys(msg) ==
  <<"chat_type", "chat_id">>
    \o (IF HasGroupLabel(msg) THEN <<"chat_name">> ELSE <<>>)
    \o <<"sender_name", "sender_id">>
    \o (IF msg.mentionsSelf = "true" THEN <<"mentions_self">> ELSE <<>>)
    \o (IF ValidPositiveNumber(msg.timestamp) THEN <<"sent_at">> ELSE <<>>)

\* C29 (as claimed): the tags of every forwarded event of bootstrap.ts have
\* the keys chat_type, chat_id, [chat_name], sender_name, sender_id,
\* [mentions_self], [sent_at] in this order, chat_name iff the session is
\* not private and has a chat name or a non-empty chat id (its value the
\* chat name, else the prefixed last 8 characters of the chat id),
\* mentions_self iff mentionsSelf is true, sent_at iff the timestamp is a
\* valid positive number.
C29_TagSequence ==
  \A i \in DOMAIN events :
    (bootstrap = "src/src/bootstrap.ts" /\ events[i].sendMessage # <<>>) =>
      LET msg == events[i].msg
          tags == events[i].sendMessage[1].contextTags
      IN  /\ [j \in DOMAIN tags |-> tags[j].key] = ExpectedKeys(msg)
          /\ HasGroupLabel(msg) =>
               tags[3].value =
                 IF msg.chatName \notin {Undefined, <<>>} THEN msg.chatName
                 ELSE <<"G">> \o Last8(msg.chatId)

\* The positions of the tags of kind chat_id in a tag list.
ChatIdPositions(tags) == {j \in DOMAIN tags : tags[j].kind = "chat_id"}

\* The chat id the claim prescribes: the value of the first chat_id tag,
\* "main" when there is none or its value is empty.
ExpectedChatId(tags) ==
  IF ChatIdPositions(tags) = {} THEN DefaultChatId
  ELSE LET first == CHOOSE j \in ChatIdPositions(tags) :
                      \A k \in ChatIdPositions(tags) : j <= k
       IN  IF tags[first].value = <<>> THEN DefaultChatId ELSE tags[first].value

\* C28: every sendMessage call of the tag protocol makes one request, of
\* method channel.accept, with chatId the value of the first chat_id tag or
\* "main", text the text or "", contextTags the tags as given, attachments
\* the attachments or [], and requiresResponse a key of the params exactly
\* when the event sets it, with the value it sets (false included).
C28_AcceptParams ==
  \A i \in DOMAIN events :
    (bootstrap = "src/unnamed/part_000" /\ events[i].sendMessage # <<>>) =>
      LET msg == events[i].sendMessage[1]
          req == events[i].request
      IN  /\ Len(req) = 1
          /\ req[1].method = "channel.accept"
          /\ req[1].params.chatId = ExpectedChatId(msg.contextTags)
          /\ req[1].params.text = (IF msg.text = Undefined THEN <<>> ELSE msg.text)
          /\ req[1].params.contextTags = msg.contextTags
          /\ req[1].params.attachments =
               (IF msg.attachments = Undefined THEN <<>> ELSE msg.attachments)
          /\ req[1].params.requiresResponse = msg.requiresResponse

\* C28 witness: an event whose first chat_id tag is empty and whose second
\* is not, without text, with requiresResponse set to false, was forwarded.
C28_Witness ==
  \E i \in DOMAIN events :
    /\ bootstrap = "src/unnamed/part_000" /\ events[i].request # <<>>
    /\ events[i].msg.requiresResponse = "false"
    /\ events[i].msg.text = Undefined
    /\ Len(events[i].msg.contextTags) = 2
    /\ events[i].msg.contextTags[1] = [kind |-> "chat_id", value |-> <<>>]
    /\ events[i].request[1].params.chatId = DefaultChatId

\* The data calls before the i-th one that set or delete its key.
WritesBefore(i) ==
  {j \in 1..(i - 1) : /\ dataOps[j].call.key = dataOps[i].call.key
                      /\ dataOps[j].call.op \in {"set", "delete"}}

\* The latest of them.
LastWrite(i) == CHOOSE j \in WritesBefore(i) : \A k \in WritesBefore(i) : k <= j

\* C21: a getData(k) that has returned gave null when k was never set,
\* exactly v (the empty string included, which is not null) when the latest
\* earlier setData or deleteData of k is setData(k, v), and null when it is
\* deleteData(k).
C21_DataRoundTrip ==
  \A i \in DOMAIN dataOps :
    (dataOps[i].call.op = "get" /\ dataOps[i].state = "fulfilled") =>
      dataOps[i].result =
        IF WritesBefore(i) = {} THEN Null
        ELSE IF dataOps[LastWrite(i)].call.op = "set"
        THEN Str(dataOps[LastWrite(i)].call.value)
        ELSE Null

\* C21 witness: setData(k, "") has succeeded and a later getData(k) has
\* returned the empty string, not null.
C21_Witness ==
  \E i, j \in DOMAIN dataOps :
    /\ j < i
    /\ dataOps[j].call = [op |-> "set", key |-> "k1", value |-> ""]
    /\ dataOps[j].state = "fulfilled"
    /\ dataOps[i].call.op = "get" /\ dataOps[i].call.key = "k1"
    /\ dataOps[i].state = "fulfilled"
    /\ dataOps[i].result = Str("") /\ dataOps[i].result # Null

\* The lines a stream was given by the guarded write.
RECURSIVE WrittenLines(_)
WrittenLines(stream) ==
  IF stream = <<>> THEN <<>>
  ELSE (IF Head(stream).via = "write" THEN <<Head(stream).line>> ELSE <<>>)
         \o WrittenLines(Tail(stream))

\* The messages the transport has written, without their line ends.
RECURSIVE ProtocolMessages(_)
ProtocolMessages(ws_) ==
  IF ws_ = <<>> THEN <<>>
  ELSE (IF Head(ws_).by = "protocol"
        THEN <<SubSeq(Head(ws_).chunk, 1, Len(Head(ws_).chunk) - 1)>> ELSE <<>>)
         \o ProtocolMessages(Tail(ws_))

\* All the text given to the guarded write so far.
RECURSIVE AllWritten(_)
AllWritten(ws_) ==
  IF ws_ = <<>> THEN <<>> ELSE Concat(Head(ws_).chunk, AllWritten(Tail(ws_)))

\* C23 (as claimed): after every write, whoever made it, the lines the real
\* stdout has received are exactly the messages the protocol writer has
\* written, whole and in order: no message is missing or altered and no
\* text of a logger is among them. Stated for runs in which all the text
\* written fits the line buffer, so that nothing is cut.
C23_StdoutIsProtocolOnly ==
  (~flushed /\ TextLen(AllWritten(writes)) <= MAX_LINE_BUFFER) =>
    WrittenLines(realStdout) = ProtocolMessages(writes)

\* The lines of a list with a destination.
RECURSIVE LinesTo(_, _)
LinesTo(lines, dest) ==
  IF lines = <<>> THEN <<>>
  ELSE (IF RouteLine(Head(lines)) = dest THEN <<Head(lines)>> ELSE <<>>)
         \o LinesTo(Tail(lines), dest)

\* C30 (as claimed): however the text was split into writes, the complete
\* lines of all the text written are emitted once each, those whose trimmed
\* text starts with "{" to the real stdout and the others to stderr, in
\* their order; the text after the last line end is held back in
\* lineBuffer, which is at most 64 KB long.
C30_EveryLineRoutedOnce ==
  ~flushed =>
    LET lines == SplitLines(AllWritten(writes), <<>>, <<>>)
        complete == SubSeq(lines, 1, Len(lines) - 1)
    IN  /\ WrittenLines(realStdout) = LinesTo(complete, "stdout")
        /\ WrittenLines(realStderr) = LinesTo(complete, "stderr")
        /\ lineBuffer = lines[Len(lines)]
        /\ TextLen(lineBuffer) <= MAX_LINE_BUFFER

====
